---- MODULE Spec2Model ----
(***************************************************************************)
(* Model of package helmbase (base.go): the Construct call that registers  *)
(* a Chart component and its child Helm Release, the default-merging       *)
(* InitDefaults, and the shape conversion To.                              *)
(*                                                                         *)
(* The three exported functions are the entry points of the package.  A    *)
(* behaviour is one call of one of them: Init draws the function and its   *)
(* arguments, the actions are the steps of that call.                      *)
(***************************************************************************)
EXTENDS Integers, Sequences, FiniteSets, TLC

VARIABLES
    op,      \* the exported function being called
    pc,      \* position in that call
    params,  \* the arguments the caller passed (never written by the call)
    comp,    \* the Chart component c: type, defaults, outputs set on it
    args,    \* the ChartArgs struct the inputs are copied onto
    rel,     \* the ReleaseType record (*relArgs), <<>> while the pointer is nil
    out,     \* the ReleaseArgs built by To, <<>> before To has run
    calls,   \* the collaborator calls made so far, in order, with their outcome
    engine,  \* what the orchestration engine has registered
    ret      \* what the call returned

vars == <<op, pc, params, comp, args, rel, out, calls, engine, ret>>

-----------------------------------------------------------------------------
(* Bounds of the model *)

\* optional fields a generated ReleaseType record may have set
MaxSetFields == 2
\* assets in a generated ValueYamlFiles list
MaxAssets == 2
\* keys, besides the reserved one, a values map or a payload may hold
MaxKeys == 1

-----------------------------------------------------------------------------
(* Go values *)

\* a nil pointer, nil map or nil interface; a set pointer *p = v is <<v>>
None == <<>>
Some(v) == <<v>>

FieldHelmStatusOutput == "status"
FieldHelmOptionsInput == "helmOptions"

EmptyMap == [k \in {} |-> ""]

BoolFields ==
    {"Atomic", "CleanupOnFail", "CreateNamespace", "DependencyUpdate", "Devel",
     "DisableCRDHooks", "DisableOpenapiValidation", "DisableWebhooks",
     "ForceUpdate", "Lint", "RecreatePods", "RenderSubchartNotes", "Replace",
     "ResetValues", "ReuseValues", "SkipAwait", "SkipCrds", "Verify",
     "WaitForJobs"}
IntFields == {"MaxHistory", "Timeout"}
StringFields ==
    {"Description", "Keyring", "Name", "Namespace", "Postrender", "Version"}
RepoFields == {"CaFile", "CertFile", "KeyFile", "Password", "Repo", "Username"}

\* helmv3.RepositoryOpts with every field unset
ZeroRepositoryOpts ==
    [CaFile |-> None, CertFile |-> None, KeyFile |-> None,
     Password |-> None, Repo |-> None, Username |-> None]

\* &ReleaseType{}: every pointer nil, Chart empty, maps and slices nil
ReleaseType ==
    [Atomic |-> None, Chart |-> "", CleanupOnFail |-> None,
     CreateNamespace |-> None, DependencyUpdate |-> None,
     Description |-> None, Devel |-> None, DisableCRDHooks |-> None,
     DisableOpenapiValidation |-> None, DisableWebhooks |-> None,
     ForceUpdate |-> None, Keyring |-> None, Lint |-> None,
     Manifest |-> None, MaxHistory |-> None, Name |-> None,
     Namespace |-> None, Postrender |-> None, RecreatePods |-> None,
     RenderSubchartNotes |-> None, Replace |-> None,
     RepositoryOpts |-> ZeroRepositoryOpts, ResetValues |-> None,
     ResourceNames |-> None, ReuseValues |-> None, SkipAwait |-> None,
     SkipCrds |-> None, Status |-> None, Timeout |-> None,
     ValueYamlFiles |-> <<>>, Values |-> None, Verify |-> None,
     Version |-> None, WaitForJobs |-> None]

-----------------------------------------------------------------------------
(* To and its helpers *)

\* a nil pulumi input interface
NilInput == <<>>

toBoolPtrNilAsFalse(p) ==
    IF p = None THEN <<"Bool", FALSE>> ELSE <<"Bool", p[1]>>

toBoolPtr(p) ==
    IF p = None THEN NilInput ELSE <<"Bool", p[1]>>

toIntPtr(p) ==
    IF p = None THEN NilInput ELSE <<"Int", p[1]>>

toStringPtr(p) ==
    IF p = None THEN NilInput ELSE <<"String", p[1]>>

toAssetOrArchiveArrayCopying(a) ==
    [i \in 1..Len(a) |-> <<"AssetOrArchive", a[i]>>]

\* the loop that would copy the elements is commented out in the source
toAssetOrArchiveArray(a) ==
    <<>>

\* pulumi.ToMap: a fresh pulumi.Map, every value wrapped; nil gives an empty map
ToMap(m) ==
    IF m = None THEN EmptyMap
    ELSE [k \in DOMAIN m[1] |-> <<"Output", m[1][k]>>]

\* pulumi.ToStringArrayMap: as ToMap, for map[string][]string
ToStringArrayMap(m) ==
    IF m = None THEN EmptyMap
    ELSE [k \in DOMAIN m[1] |-> <<"StringArray", m[1][k]>>]

To(a) ==
    [Atomic                   |-> toBoolPtr(a.Atomic),
     Chart                    |-> <<"String", a.Chart>>,
     CleanupOnFail            |-> toBoolPtr(a.CleanupOnFail),
     CreateNamespace          |-> toBoolPtr(a.CreateNamespace),
     DependencyUpdate         |-> toBoolPtr(a.DependencyUpdate),
     Description              |-> toStringPtr(a.Description),
     Devel                    |-> toBoolPtr(a.Devel),
     DisableCRDHooks          |-> toBoolPtr(a.DisableCRDHooks),
     DisableOpenapiValidation |-> toBoolPtr(a.DisableOpenapiValidation),
     DisableWebhooks          |-> toBoolPtr(a.DisableWebhooks),
     ForceUpdate              |-> toBoolPtr(a.ForceUpdate),
     Keyring                  |-> toStringPtr(a.Keyring),
     Lint                     |-> toBoolPtr(a.Lint),
     Manifest                 |-> ToMap(a.Manifest),
     MaxHistory               |-> toIntPtr(a.MaxHistory),
     Name                     |-> toStringPtr(a.Name),
     Namespace                |-> toStringPtr(a.Namespace),
     Postrender               |-> toStringPtr(a.Postrender),
     RecreatePods             |-> toBoolPtr(a.RecreatePods),
     RenderSubchartNotes      |-> toBoolPtr(a.RenderSubchartNotes),
     Replace                  |-> toBoolPtr(a.Replace),
     RepositoryOpts           |->
        [CaFile   |-> toStringPtr(a.RepositoryOpts.CaFile),
         CertFile |-> toStringPtr(a.RepositoryOpts.CertFile),
         KeyFile  |-> toStringPtr(a.RepositoryOpts.KeyFile),
         Password |-> toStringPtr(a.RepositoryOpts.Password),
         Repo     |-> toStringPtr(a.RepositoryOpts.Repo),
         Username |-> toStringPtr(a.RepositoryOpts.Username)],
     ResetValues              |-> toBoolPtr(a.ResetValues),
     ResourceNames            |-> ToStringArrayMap(a.ResourceNames),
     ReuseValues              |-> toBoolPtr(a.ReuseValues),
     SkipAwait                |-> toBoolPtr(a.SkipAwait),
     SkipCrds                 |-> toBoolPtr(a.SkipCrds),
     Timeout                  |-> toIntPtr(a.Timeout),
     ValueYamlFiles           |-> toAssetOrArchiveArray(a.ValueYamlFiles),
     Values                   |-> ToMap(a.Values),
     Verify                   |-> toBoolPtr(a.Verify),
     Version                  |-> toStringPtr(a.Version),
     WaitForJobs              |-> toBoolPtr(a.WaitForJobs)]

-----------------------------------------------------------------------------
(* InitDefaults *)

\* mapstructure's Decode of the payload into the values map (Result is
\* &args.Values, ZeroFields is off): a nil payload sets nothing, a struct
\* writes one key per tagged field over the map, keeping the other keys,
\* anything else is an error and leaves the map alone.
Decode(values, target) ==
    CASE values.kind = "nil" -> [err |-> FALSE, result |-> target]
      [] values.kind = "struct" ->
            [err |-> FALSE,
             result |-> [k \in DOMAIN target \cup DOMAIN values.fields |->
                            IF k \in DOMAIN values.fields
                            THEN values.fields[k] ELSE target[k]]]
      [] OTHER -> [err |-> TRUE, result |-> target]

\* delete(m, key)
MapDelete(m, key) ==
    [k \in DOMAIN m \ {key} |-> m[k]]

InitDefaultsOverwriting(a, chart, repo, values) ==
    LET a1 == [a EXCEPT !.Chart = chart, !.RepositoryOpts.Repo = Some(repo)]
        a2 == IF a1.Values = None THEN [a1 EXCEPT !.Values = Some(EmptyMap)]
              ELSE a1
        d  == Decode(values, a2.Values[1])
    IN  IF d.err THEN [panic |-> TRUE, args |-> a2]
        ELSE [panic |-> FALSE,
              args  |-> [a2 EXCEPT !.Values =
                            Some(MapDelete(d.result, FieldHelmOptionsInput))]]

InitDefaultsKeepingKey(a, chart, repo, values) ==
    LET a1 == IF a.Chart = "" THEN [a EXCEPT !.Chart = chart] ELSE a
        a2 == IF a1.RepositoryOpts.Repo = None
              THEN [a1 EXCEPT !.RepositoryOpts.Repo = Some(repo)] ELSE a1
        a3 == IF a2.Values = None THEN [a2 EXCEPT !.Values = Some(EmptyMap)]
              ELSE a2
        d  == Decode(values, a3.Values[1])
    IN  IF d.err THEN [panic |-> TRUE, args |-> a3]
        ELSE [panic |-> FALSE, args |-> [a3 EXCEPT !.Values = Some(d.result)]]

InitDefaultsMapFirst(a, chart, repo, values) ==
    LET a1 == IF a.Chart = "" THEN [a EXCEPT !.Chart = chart] ELSE a
        a2 == IF a1.RepositoryOpts.Repo = None
              THEN [a1 EXCEPT !.RepositoryOpts.Repo = Some(repo)] ELSE a1
        a3 == IF a2.Values = None THEN [a2 EXCEPT !.Values = Some(EmptyMap)]
              ELSE a2
        d  == Decode(values, EmptyMap)
        m  == [k \in DOMAIN a3.Values[1] \cup DOMAIN d.result |->
                  IF k \in DOMAIN a3.Values[1]
                  THEN a3.Values[1][k] ELSE d.result[k]]
    IN  IF d.err THEN [panic |-> TRUE, args |-> a3]
        ELSE [panic |-> FALSE,
              args  |-> [a3 EXCEPT !.Values =
                            Some(MapDelete(m, FieldHelmOptionsInput))]]

\* The record after the call, and whether the call panicked: a failed
\* Decode panics after Chart, Repo and Values have been defaulted.
InitDefaults(a, chart, repo, values) ==
    LET a1 == IF a.Chart = "" THEN [a EXCEPT !.Chart = chart] ELSE a
        a2 == IF a1.RepositoryOpts.Repo = None
              THEN [a1 EXCEPT !.RepositoryOpts.Repo = Some(repo)] ELSE a1
        a3 == IF a2.Values = None THEN [a2 EXCEPT !.Values = Some(EmptyMap)]
              ELSE a2
        d  == Decode(values, a3.Values[1])
    IN  IF d.err THEN [panic |-> TRUE, args |-> a3]
        ELSE [panic |-> FALSE,
              args  |-> [a3 EXCEPT !.Values =
                            Some(MapDelete(d.result, FieldHelmOptionsInput))]]

-----------------------------------------------------------------------------
(* The arguments a caller can pass *)

\* the type token c.Type() of the component, and a token of another type
ComponentType == "helmbase:index:Chart"
OtherType == "helmbase:index:Other"
ResourceName == "web"

KeyNames == <<"replicas", "image", "service", "ingress">>
Keys == {FieldHelmOptionsInput} \cup {KeyNames[i] : i \in 1..MaxKeys}
Vals == {"v1", "v2"}

\* map[string]interface{} values over Keys
Maps == UNION {[S -> Vals] : S \in SUBSET Keys}

\* the values payload: nil, a struct with pulumi-tagged fields, or a value
\* that is neither a struct nor a map
Payloads ==
    {[kind |-> "nil", fields |-> EmptyMap],
     [kind |-> "scalar", fields |-> EmptyMap]}
    \cup {[kind |-> "struct", fields |-> m] : m \in Maps}

ChartNames == {"", "nginx"}
RepoURLs == {"", "https://charts.example.com"}

\* the Chart implementations: Type, DefaultChartName, DefaultRepoURL, and
\* the status SetOutputs stores
Charts ==
    {[type |-> ComponentType, DefaultChartName |-> c, DefaultRepoURL |-> r,
      outputs |-> None] : c \in ChartNames, r \in RepoURLs}

\* records as a user supplies them to default-merging
UserRecords ==
    {[ReleaseType EXCEPT !.Chart = c, !.RepositoryOpts.Repo = r, !.Values = v] :
        c \in {"", "redis"},
        r \in {None, Some(""), Some("https://example.org/charts")},
        v \in {None} \cup {Some(m) : m \in Maps}}

\* the fields of a record, RepositoryOpts flattened, in a fixed order
FieldSeq ==
    <<"Atomic", "Chart", "CleanupOnFail", "CreateNamespace",
      "DependencyUpdate", "Description", "Devel", "DisableCRDHooks",
      "DisableOpenapiValidation", "DisableWebhooks", "ForceUpdate", "Keyring",
      "Lint", "Manifest", "MaxHistory", "Name", "Namespace", "Postrender",
      "RecreatePods", "RenderSubchartNotes", "Replace", "CaFile", "CertFile",
      "KeyFile", "Password", "Repo", "Username", "ResetValues",
      "ResourceNames", "ReuseValues", "SkipAwait", "SkipCrds", "Timeout",
      "ValueYamlFiles", "Values", "Verify", "Version", "WaitForJobs">>

Asset == "values.yaml"

\* the values a field can be set to, other than its zero value
FieldVals(f) ==
    CASE f \in BoolFields -> {Some(TRUE), Some(FALSE)}
      [] f \in IntFields -> {Some(0), Some(5)}
      [] f \in StringFields \cup RepoFields -> {Some(""), Some("x")}
      [] f = "Chart" -> {"nginx"}
      [] f = "Manifest" -> {Some([k \in {"kind"} |-> "Deployment"])}
      [] f = "ResourceNames" -> {Some([k \in {"Service/v1"} |-> <<"web">>])}
      [] f = "ValueYamlFiles" -> {[i \in 1..n |-> Asset] : n \in 1..MaxAssets}
      [] f = "Values" ->
            {Some(EmptyMap), Some([k \in {FieldHelmOptionsInput} |-> "v1"])}

SetField(r, f, v) ==
    IF f \in RepoFields THEN [r EXCEPT !.RepositoryOpts[f] = v]
    ELSE [r EXCEPT ![f] = v]

\* the input bag of a construction request: the helmOptions record (absent
\* or present) and the other tagged fields of the arguments struct
ConstructInputs ==
    {[helmOptions |-> h, fields |-> m] :
        h \in {None} \cup {Some(r) : r \in UserRecords}, m \in Maps}

NoEngine == [parent |-> None, child |-> None, outputs |-> None]
NoChart ==
    [type |-> "", DefaultChartName |-> "", DefaultRepoURL |-> "",
     outputs |-> None]
NoArgs == [fields |-> EmptyMap]
NotReturned == [kind |-> "none", err |-> "", result |-> None]
Failure(msg) == [kind |-> "error", err |-> msg, result |-> None]

-----------------------------------------------------------------------------
(* Initial states: one call of one exported function *)

InitConstruct ==
    /\ op = "Construct"
    /\ pc = "type"
    /\ \E t \in {ComponentType, OtherType}, i \in ConstructInputs :
          params = [typ |-> t, name |-> ResourceName, inputs |-> i]
    /\ comp \in Charts
    /\ args = NoArgs
    /\ rel = None

InitInitDefaults ==
    /\ op = "InitDefaults"
    /\ pc = "call"
    /\ \E a \in UserRecords, c \in ChartNames, r \in RepoURLs, v \in Payloads :
          /\ params = [args |-> a, chart |-> c, repo |-> r, values |-> v]
          /\ rel = Some(a)
    /\ comp = NoChart
    /\ args = NoArgs

\* To is called with r, or with r after at most n more of the fields
\* FieldSeq[from], FieldSeq[from+1], ... have been set
RECURSIVE Populate(_, _, _)
Populate(r, from, n) ==
    \/ /\ params = [args |-> r]
       /\ rel = Some(r)
    \/ /\ n > 0
       /\ \E i \in from..Len(FieldSeq) :
             \E v \in FieldVals(FieldSeq[i]) :
                Populate(SetField(r, FieldSeq[i], v), i + 1, n - 1)

InitTo ==
    /\ op = "To"
    /\ pc = "call"
    /\ Populate(ReleaseType, 1, MaxSetFields)
    /\ comp = NoChart
    /\ args = NoArgs

Init ==
    /\ InitConstruct \/ InitInitDefaults \/ InitTo
    /\ out = None
    /\ calls = <<>>
    /\ engine = NoEngine
    /\ ret = NotReturned

-----------------------------------------------------------------------------
(* Construct, one action per step between two collaborator calls *)

\* a collaborator call and whether it succeeded
Call(name, ok) == [name |-> name, ok |-> ok]

\* return nil, err
ReturnError(msg) ==
    /\ ret' = Failure(msg)
    /\ pc' = "done"

CheckTypeSkipped ==
    /\ op = "Construct" /\ pc = "type"
    /\ ret' = ret
    /\ pc' = "CopyTo"
    /\ UNCHANGED <<op, params, comp, args, rel, out, calls, engine>>

\* if et := c.Type(); typ != et { return nil, errors.Errorf(...) }
CheckType ==
    /\ op = "Construct" /\ pc = "type"
    /\ IF params.typ # comp.type
       THEN ReturnError("unknown resource type")
       ELSE /\ ret' = ret
            /\ pc' = "CopyTo"
    /\ UNCHANGED <<op, params, comp, args, rel, out, calls, engine>>

\* inputs.CopyTo(args): the input bag lands on the arguments struct, the
\* helmOptions record included, or the call fails and is wrapped
CopyTo ==
    /\ op = "Construct" /\ pc = "CopyTo"
    /\ \E ok \in BOOLEAN :
          /\ calls' = Append(calls, Call("CopyTo", ok))
          /\ IF ok
             THEN /\ args' = [fields |-> params.inputs.fields]
                  /\ rel' = params.inputs.helmOptions
                  /\ pc' = "RegisterComponentResource"
                  /\ ret' = ret
             ELSE /\ ReturnError("setting args: copy failed")
                  /\ UNCHANGED <<args, rel>>
    /\ UNCHANGED <<op, params, comp, out, engine>>

RegisterComponentResourceIgnoringError ==
    /\ op = "Construct" /\ pc = "RegisterComponentResource"
    /\ \E ok \in BOOLEAN :
          /\ calls' = Append(calls, Call("RegisterComponentResource", ok))
          /\ IF ok
             THEN engine' = [engine EXCEPT !.parent =
                      Some([typ |-> params.typ, name |-> params.name])]
             ELSE engine' = engine
          /\ pc' = "InitDefaults"
          /\ ret' = ret
    /\ UNCHANGED <<op, params, comp, args, rel, out>>

\* ctx.RegisterComponentResource(typ, name, c, opts)
RegisterComponentResource ==
    /\ op = "Construct" /\ pc = "RegisterComponentResource"
    /\ \E ok \in BOOLEAN :
          /\ calls' = Append(calls, Call("RegisterComponentResource", ok))
          /\ IF ok
             THEN /\ engine' = [engine EXCEPT !.parent =
                         Some([typ |-> params.typ, name |-> params.name])]
                  /\ pc' = "InitDefaults"
                  /\ ret' = ret
             ELSE /\ ReturnError("registration failed")
                  /\ UNCHANGED engine
    /\ UNCHANGED <<op, params, comp, args, rel, out>>

\* relArgs := args.R(); a nil *relArgs becomes &ReleaseType{}; InitDefaults
\* with the component's defaults and the arguments struct as the payload
ConstructInitDefaults ==
    /\ op = "Construct" /\ pc = "InitDefaults"
    /\ LET relArgs == IF rel = None THEN ReleaseType ELSE rel[1]
           r == InitDefaults(relArgs, comp.DefaultChartName,
                             comp.DefaultRepoURL,
                             [kind |-> "struct", fields |-> args.fields])
       IN  /\ rel' = Some(r.args)
           /\ IF r.panic
              THEN /\ ret' = [kind |-> "panic", err |-> "decode", result |-> None]
                   /\ pc' = "done"
              ELSE /\ ret' = ret
                   /\ pc' = "NewRelease"
    /\ UNCHANGED <<op, params, comp, args, out, calls, engine>>

NewReleaseRetrying ==
    /\ op = "Construct" /\ pc = "NewRelease"
    /\ out' = Some(To(rel[1]))
    /\ \E ok \in BOOLEAN :
          /\ calls' = Append(calls, Call("NewRelease", ok))
          /\ IF ok
             THEN /\ engine' = [engine EXCEPT !.child =
                         Some([name |-> params.name \o "-helm",
                               args |-> To(rel[1]),
                               parent |-> params.name])]
                  /\ pc' = "SetOutputs"
                  /\ ret' = ret
             ELSE IF Len(calls) < 3
                  THEN UNCHANGED <<pc, engine, ret>>
                  ELSE /\ ReturnError("release failed")
                       /\ UNCHANGED engine
    /\ UNCHANGED <<op, params, comp, args, rel>>

\* helmv3.NewRelease(ctx, name+"-helm", To(*relArgs), pulumi.Parent(c))
NewRelease ==
    /\ op = "Construct" /\ pc = "NewRelease"
    /\ out' = Some(To(rel[1]))
    /\ \E ok \in BOOLEAN :
          /\ calls' = Append(calls, Call("NewRelease", ok))
          /\ IF ok
             THEN /\ engine' = [engine EXCEPT !.child =
                         Some([name |-> params.name \o "-helm",
                               args |-> To(rel[1]),
                               parent |-> params.name])]
                  /\ pc' = "SetOutputs"
                  /\ ret' = ret
             ELSE /\ ReturnError("release failed")
                  /\ UNCHANGED engine
    /\ UNCHANGED <<op, params, comp, args, rel>>

\* c.SetOutputs(rel.Status)
SetOutputs ==
    /\ op = "Construct" /\ pc = "SetOutputs"
    /\ calls' = Append(calls, Call("SetOutputs", TRUE))
    /\ comp' = [comp EXCEPT !.outputs = Some(<<"Status", engine.child[1].name>>)]
    /\ pc' = "RegisterResourceOutputs"
    /\ UNCHANGED <<op, params, args, rel, out, engine, ret>>

RegisterResourceOutputsIgnoringError ==
    /\ op = "Construct" /\ pc = "RegisterResourceOutputs"
    /\ \E ok \in BOOLEAN :
          /\ calls' = Append(calls, Call("RegisterResourceOutputs", ok))
          /\ IF ok
             THEN engine' = [engine EXCEPT !.outputs =
                      Some([k \in {FieldHelmStatusOutput} |->
                                engine.child[1].name])]
             ELSE engine' = engine
          /\ pc' = "NewConstructResult"
          /\ ret' = ret
    /\ UNCHANGED <<op, params, comp, args, rel, out>>

\* ctx.RegisterResourceOutputs(c, pulumi.Map{FieldHelmStatusOutput: rel})
RegisterResourceOutputs ==
    /\ op = "Construct" /\ pc = "RegisterResourceOutputs"
    /\ \E ok \in BOOLEAN :
          /\ calls' = Append(calls, Call("RegisterResourceOutputs", ok))
          /\ IF ok
             THEN /\ engine' = [engine EXCEPT !.outputs =
                         Some([k \in {FieldHelmStatusOutput} |->
                                   engine.child[1].name])]
                  /\ pc' = "NewConstructResult"
                  /\ ret' = ret
             ELSE /\ ReturnError("outputs failed")
                  /\ UNCHANGED engine
    /\ UNCHANGED <<op, params, comp, args, rel, out>>

\* return provider.NewConstructResult(c)
NewConstructResult ==
    /\ op = "Construct" /\ pc = "NewConstructResult"
    /\ \E ok \in BOOLEAN :
          /\ calls' = Append(calls, Call("NewConstructResult", ok))
          /\ IF ok
             THEN /\ ret' = [kind |-> "result", err |-> "",
                             result |-> Some(params.name)]
                  /\ pc' = "done"
             ELSE ReturnError("result failed")
    /\ UNCHANGED <<op, params, comp, args, rel, out, engine>>

-----------------------------------------------------------------------------
(* InitDefaults and To called on their own *)

CallInitDefaults ==
    /\ op = "InitDefaults" /\ pc = "call"
    /\ LET r == InitDefaults(rel[1], params.chart, params.repo, params.values)
       IN  /\ rel' = Some(r.args)
           /\ ret' = [kind |-> IF r.panic THEN "panic" ELSE "returned",
                      err |-> "", result |-> None]
    /\ pc' = "done"
    /\ UNCHANGED <<op, params, comp, args, out, calls, engine>>

CallTo ==
    /\ op = "To" /\ pc = "call"
    /\ out' = Some(To(rel[1]))
    /\ ret' = [kind |-> "returned", err |-> "", result |-> None]
    /\ pc' = "done"
    /\ UNCHANGED <<op, params, comp, args, rel, calls, engine>>

Next ==
    \/ CheckType
    \/ CopyTo
    \/ RegisterComponentResource
    \/ ConstructInitDefaults
    \/ NewRelease
    \/ SetOutputs
    \/ RegisterResourceOutputs
    \/ NewConstructResult
    \/ CallInitDefaults
    \/ CallTo

Spec == Init /\ [][Next]_vars

-----------------------------------------------------------------------------
(* What the claims speak about *)

Called(name) == \E i \in DOMAIN calls : calls[i].name = name

\* InitDefaults has run and returned, alone or inside Construct
InitDefaultsReturned ==
    \/ op = "InitDefaults" /\ ret.kind = "returned"
    \/ op = "Construct" /\ (pc = "NewRelease" \/ Called("NewRelease"))

\* the record InitDefaults was given
RelBefore ==
    IF op = "Construct"
    THEN IF params.inputs.helmOptions = None THEN ReleaseType
         ELSE params.inputs.helmOptions[1]
    ELSE params.args

ValuesBefore ==
    IF RelBefore.Values = None THEN EmptyMap ELSE RelBefore.Values[1]

ChartDefault == IF op = "Construct" THEN comp.DefaultChartName ELSE params.chart
RepoDefault == IF op = "Construct" THEN comp.DefaultRepoURL ELSE params.repo

\* the keys the payload decodes to, with their values
PayloadFields ==
    IF op = "Construct" THEN params.inputs.fields
    ELSE IF params.values.kind = "struct" THEN params.values.fields
    ELSE EmptyMap

\* To has run, alone or inside Construct
ToReturned == out # None

-----------------------------------------------------------------------------
(* Construct *)

\* C1: a Construct call whose type token differs from c.Type() makes no
\* collaborator call at all (no CopyTo, RegisterComponentResource,
\* NewRelease, SetOutputs, RegisterResourceOutputs), registers nothing, and
\* ends with an error and no result.
TypeMismatchHasNoSideEffect ==
    (op = "Construct" /\ params.typ # comp.type) =>
        /\ calls = <<>>
        /\ engine = NoEngine
        /\ comp.outputs = None
        /\ pc \in {"type", "done"}
        /\ pc = "done" => ret.kind = "error" /\ ret.result = None

TypeMismatchReturned ==
    /\ op = "Construct" /\ params.typ = OtherType
    /\ pc = "done" /\ ret.err = "unknown resource type"

\* C2: NewRelease is called only after a RegisterComponentResource call
\* that succeeded, and a created child has the registered composite as its
\* parent.
ParentRegisteredBeforeChild ==
    op = "Construct" =>
        /\ \A i \in DOMAIN calls :
              calls[i].name = "NewRelease" =>
                 /\ \E j \in 1..(i - 1) :
                       calls[j] = Call("RegisterComponentResource", TRUE)
                 /\ engine.parent # None
        /\ engine.child # None =>
              /\ engine.parent # None
              /\ engine.child[1].parent = engine.parent[1].name

ChildCreatedUnderParent ==
    /\ op = "Construct" /\ engine.child # None
    /\ engine.child[1].name = "web-helm" /\ engine.parent[1].name = "web"

\* C3: within one Construct call no collaborator call is made twice, and a
\* collaborator call that failed is the last call made: the call has
\* returned an error and no result (after a failed NewRelease neither
\* SetOutputs nor RegisterResourceOutputs is called).
FailFastNoRetry ==
    op = "Construct" =>
        /\ \A i, j \in DOMAIN calls : calls[i].name = calls[j].name => i = j
        /\ \A i \in DOMAIN calls :
              ~calls[i].ok =>
                 /\ i = Len(calls)
                 /\ pc = "done"
                 /\ ret.kind = "error" /\ ret.result = None
        /\ Call("NewRelease", FALSE) \in {calls[i] : i \in DOMAIN calls} =>
              ~Called("SetOutputs") /\ ~Called("RegisterResourceOutputs")

NewReleaseFailed ==
    /\ op = "Construct" /\ pc = "done"
    /\ Len(calls) = 3
    /\ calls[3] = Call("NewRelease", FALSE)
    /\ ret.err = "release failed"

\* the effects of a Construct call that are in place
Effects ==
    {e \in {"parent", "child", "outputs"} :
        \/ e = "parent" /\ engine.parent # None
        \/ e = "child" /\ engine.child # None
        \/ e = "outputs" /\ engine.outputs # None}

\* C4 as stated: a finished Construct call has either registered both
\* resources and recorded the status output, or failed without a result,
\* and never leaves only some of the three effects in place.
NoPartialEffect ==
    (op = "Construct" /\ pc = "done") =>
        /\ Cardinality(Effects) = 3 \/ ret.kind # "result"
        /\ Cardinality(Effects) \in {0, 3}

\* C4 as amended: a finished Construct call that returns a result has
\* registered both resources and recorded the status output; a call that
\* fails returns no result, and what it leaves in place is a prefix of
\* parent registration, child creation, output recording.
ResultImpliesAllEffects ==
    (op = "Construct" /\ pc = "done") =>
        /\ ret.kind = "result" =>
              Cardinality(Effects) = 3 /\ ret.result = Some(params.name)
        /\ ret.kind # "result" => ret.result = None
        /\ "outputs" \in Effects => "child" \in Effects
        /\ "child" \in Effects => "parent" \in Effects

FailedWithParentOnly ==
    /\ op = "Construct" /\ pc = "done"
    /\ ret.kind = "error" /\ Effects = {"parent"}

-----------------------------------------------------------------------------
(* InitDefaults *)

\* C5 as stated: after InitDefaults returns, Chart is not the empty string
\* and RepositoryOpts.Repo is not nil, whatever the record and the defaults.
ChartAndRepoNeverUnset ==
    InitDefaultsReturned =>
        rel[1].Chart # "" /\ rel[1].RepositoryOpts.Repo # None

\* C5 as amended: after InitDefaults returns, RepositoryOpts.Repo is not
\* nil, and Chart is the empty string only when the record's Chart was
\* unset and the supplied default chart is the empty string.
ChartAndRepoFallBack ==
    InitDefaultsReturned =>
        /\ rel[1].RepositoryOpts.Repo # None
        /\ rel[1].Chart = "" => RelBefore.Chart = "" /\ ChartDefault = ""

ChartAndRepoDefaulted ==
    /\ op = "InitDefaults" /\ ret.kind = "returned"
    /\ RelBefore.Chart = "" /\ RelBefore.RepositoryOpts.Repo = None
    /\ rel[1].Chart = "nginx"
    /\ rel[1].RepositoryOpts.Repo = Some("https://charts.example.com")

\* C6: InitDefaults sets an unset Chart to the default chart and an unset
\* Repo to the default repository URL, and leaves a Chart or Repo that was
\* set as it was.
DefaultsOnlyWhenUnset ==
    InitDefaultsReturned =>
        /\ RelBefore.Chart = "" => rel[1].Chart = ChartDefault
        /\ RelBefore.Chart # "" => rel[1].Chart = RelBefore.Chart
        /\ RelBefore.RepositoryOpts.Repo = None =>
              rel[1].RepositoryOpts.Repo = Some(RepoDefault)
        /\ RelBefore.RepositoryOpts.Repo # None =>
              rel[1].RepositoryOpts.Repo = RelBefore.RepositoryOpts.Repo

SetChartAndRepoKept ==
    /\ op = "InitDefaults" /\ ret.kind = "returned"
    /\ params.chart = "nginx" /\ params.repo = "https://charts.example.com"
    /\ RelBefore.Chart = "redis" /\ RelBefore.RepositoryOpts.Repo = Some("")
    /\ rel[1].Chart = "redis" /\ rel[1].RepositoryOpts.Repo = Some("")

\* C7: after InitDefaults returns, the key "helmOptions" is not in Values,
\* whether it was in the map before, came with the payload, both or
\* neither; the Values of the ReleaseArgs Construct hands to NewRelease
\* do not contain it either.
ReservedKeyAbsent ==
    /\ InitDefaultsReturned =>
          /\ rel[1].Values # None
          /\ FieldHelmOptionsInput \notin DOMAIN rel[1].Values[1]
    /\ (op = "Construct" /\ out # None) =>
          FieldHelmOptionsInput \notin DOMAIN out[1].Values
    /\ engine.child # None =>
          FieldHelmOptionsInput \notin DOMAIN engine.child[1].args.Values

ReservedKeyRemovedForChild ==
    /\ op = "Construct" /\ engine.child # None
    /\ FieldHelmOptionsInput \in DOMAIN ValuesBefore
    /\ FieldHelmOptionsInput \in DOMAIN PayloadFields
    /\ DOMAIN engine.child[1].args.Values = {KeyNames[1]}

\* C8: after InitDefaults returns, every key but the reserved one that the
\* payload decodes to holds the payload's value, every other key of the
\* map before the call holds its old value, and there are no other keys
\* (a nil map counts as empty).
PayloadWinsOverMap ==
    InitDefaultsReturned =>
        /\ rel[1].Values # None
        /\ \A k \in Keys \ {FieldHelmOptionsInput} :
              /\ k \in DOMAIN PayloadFields =>
                    /\ k \in DOMAIN rel[1].Values[1]
                    /\ rel[1].Values[1][k] = PayloadFields[k]
              /\ (k \notin DOMAIN PayloadFields /\ k \in DOMAIN ValuesBefore) =>
                    /\ k \in DOMAIN rel[1].Values[1]
                    /\ rel[1].Values[1][k] = ValuesBefore[k]
              /\ k \notin (DOMAIN PayloadFields \cup DOMAIN ValuesBefore) =>
                    k \notin DOMAIN rel[1].Values[1]
        /\ DOMAIN rel[1].Values[1] \subseteq Keys

PayloadOverwroteKey ==
    /\ op = "InitDefaults" /\ ret.kind = "returned"
    /\ KeyNames[1] \in DOMAIN ValuesBefore /\ ValuesBefore[KeyNames[1]] = "v1"
    /\ KeyNames[1] \in DOMAIN PayloadFields /\ PayloadFields[KeyNames[1]] = "v2"
    /\ rel[1].Values[1][KeyNames[1]] = "v2"

-----------------------------------------------------------------------------
(* To *)

\* an unset field gives a nil input, a set field an input of the given
\* kind carrying the same value
PassedThrough(kind, p, q) ==
    /\ p = None => q = NilInput
    /\ p # None => q # NilInput /\ q[1] = kind /\ q[2] = p[1]

\* C9: To converts every optional bool, int and string field, and every
\* field of RepositoryOpts, from the same field of its input alone: unset
\* gives unset, set gives the same value; the input record is as it was.
OptionalFieldsPassThrough ==
    ToReturned =>
        /\ \A f \in BoolFields : PassedThrough("Bool", rel[1][f], out[1][f])
        /\ \A f \in IntFields : PassedThrough("Int", rel[1][f], out[1][f])
        /\ \A f \in StringFields : PassedThrough("String", rel[1][f], out[1][f])
        /\ \A f \in RepoFields :
              PassedThrough("String", rel[1].RepositoryOpts[f],
                            out[1].RepositoryOpts[f])
        /\ op = "To" => rel = Some(params.args)

TwoFieldsConverted ==
    /\ op = "To" /\ ToReturned
    /\ params.args.Atomic = Some(FALSE) /\ params.args.Timeout = Some(0)
    /\ out[1].Atomic = <<"Bool", FALSE>> /\ out[1].Timeout = <<"Int", 0>>
    /\ out[1].Lint = NilInput /\ out[1].RepositoryOpts.Password = NilInput

\* C10: the ValueYamlFiles of To's result is empty, however many assets
\* the input's ValueYamlFiles holds.
ValueYamlFilesAlwaysEmpty ==
    ToReturned => Len(out[1].ValueYamlFiles) = 0

ManyAssetsDropped ==
    /\ op = "To" /\ ToReturned
    /\ Len(params.args.ValueYamlFiles) >= 2
    /\ out[1].ValueYamlFiles = <<>>

====
